---- MODULE Spec2Model ----
(***************************************************************************)
(* Playlist diff engine of spotify-filterer: the command-line script       *)
(* (clean_playlist.py) and the web application (app.py, run_filter).       *)
(* A run collects the identifiers of the filter sources, matches them      *)
(* against the target playlist and removes the matches in batches.         *)
(* The streaming service (spotipy client) is the environment: it owns the  *)
(* playlists and the liked-songs library, answers page requests and        *)
(* executes removals; any of its calls may fail.                           *)
(***************************************************************************)
EXTENDS Integers, Sequences, FiniteSets, TLC

\* ------------------------------------------------------------------------
\* Bounds of the model
\* ------------------------------------------------------------------------
NumIds == 2
MaxShortLen == 1
MaxPids == 2
MaxRuns == 2

\* ------------------------------------------------------------------------
\* Program constants
\* ------------------------------------------------------------------------
BatchSize == 100
LikedPageSize == 50
PlaylistPageSize == 100

\* ------------------------------------------------------------------------
\* Data: items, tracks, identifiers
\* ------------------------------------------------------------------------
\* Python None / "" for a track identifier.
NullId == 0

TrackIds == 1..NumIds

\* item['track'] is None: the item wraps no track.
NoTrack == [present |-> FALSE, id |-> NullId, name |-> <<>>]

\* A track without identifier (local file).
LocalFile == [present |-> TRUE, id |-> NullId, name |-> <<"f">>]

\* The characters the report's escaping is about.
MarkupChars == <<"&", "<", ">">>

\* A track's display name, a string as the sequence of its characters:
\* "&a", "<a", ">a", "&a", ... (two tracks may have the same name).
TrackName(i) == <<MarkupChars[((i - 1) % 3) + 1], "a">>

Track(i) == [present |-> TRUE, id |-> i, name |-> TrackName(i)]

Items == {NoTrack, LocalFile} \cup {Track(i) : i \in TrackIds}

Min(a, b) == IF a <= b THEN a ELSE b

\* Sequences over S of length 1..n.
SeqsUpTo(S, n) == UNION {[1..k -> S] : k \in 1..n}

\* The playlist of length n that repeats the pattern base.
Cycle(base, n) == [k \in 1..n |-> base[((k - 1) % Len(base)) + 1]]

\* Lengths of the patterned target playlists: a few entries, exactly two
\* batches, two pages and a half.
PatternLens == {3, 2 * BatchSize, 2 * BatchSize + 50}

\* Their patterns: two tracks in turn; a track, an entry without track and
\* a local file in turn.
Patterns == {<<Track(1), Track(NumIds)>>, <<Track(NumIds), NoTrack, LocalFile>>}

\* The target playlists: the empty one, every short one, the patterned ones.
TargetChoices ==
    {<<>>} \cup SeqsUpTo(Items, MaxShortLen)
           \cup {Cycle(b, n) : b \in Patterns, n \in PatternLens}

\* The filter sources: empty; a local file before a track; an entry
\* without track after a track; one that needs several pages of either
\* page size.
SourceChoices ==
    { <<>>,
      <<LocalFile, Track(NumIds)>>,
      <<Track(1), NoTrack>>,
      Cycle(<<Track(1), LocalFile, Track(NumIds)>>, PlaylistPageSize + 1) }

\* ------------------------------------------------------------------------
\* Target links, as sequences of lexical tokens
\* ------------------------------------------------------------------------
\* form_data.get("target_playlist") is None when the field is missing.
NoLink == [present |-> FALSE, text |-> <<>>]

Text(t) == [present |-> TRUE, text |-> t]

Links ==
    { Text(<<>>),
      Text(<<"junk">>),
      Text(<<"spotify:", "album:", "T">>),
      Text(<<"https://", "open.spotify.com/", "playlist/">>),
      Text(<<"https://", "open.spotify.com/", "playlist/", "T", "?", "si=1">>),
      Text(<<"spotify:", "playlist:", "T">>),
      Text(<<"spotify:", "playlist:", "Z">>) }

\* First index >= from at which token a is directly followed by token b
\* (0 when there is none).
RECURSIVE FindPair(_, _, _, _)
FindPair(s, a, b, from) ==
    IF from + 1 > Len(s) THEN 0
    ELSE IF s[from] = a /\ s[from + 1] = b THEN from
    ELSE FindPair(s, a, b, from + 1)

\* First index >= from of token a (0 when there is none).
RECURSIVE FindTok(_, _, _)
FindTok(s, a, from) ==
    IF from > Len(s) THEN 0
    ELSE IF s[from] = a THEN from
    ELSE FindTok(s, a, from + 1)

\* s.split(a)[0]
BeforeTok(s, a) ==
    LET i == FindTok(s, a, 1)
    IN  IF i = 0 THEN s ELSE SubSeq(s, 1, i - 1)

\* s.split(a)[1], for s that contains a
AfterTok(s, a) ==
    LET i == FindTok(s, a, 1)
        rest == SubSeq(s, i + 1, Len(s))
    IN  BeforeTok(rest, a)

\* s.split(a + b)[1], for s that contains the pair a b
AfterPair(s, a, b) ==
    LET i == FindPair(s, a, b, 1)
        rest == SubSeq(s, i + 2, Len(s))
        j == FindPair(rest, a, b, 1)
    IN  IF j = 0 THEN rest ELSE SubSeq(rest, 1, j - 1)

\* The links submitted to the web form: a missing field, a random string,
\* the URL of the target, a URI of a playlist nobody has.
WebLinks ==
    { NoLink,
      Text(<<"junk">>),
      Text(<<"https://", "open.spotify.com/", "playlist/", "T", "?", "si=1">>),
      Text(<<"spotify:", "playlist:", "Z">>) }

\* Result of the resolver: found = FALSE is Python None.
NoId == [found |-> FALSE, id |-> <<>>]

SomeId(t) == [found |-> TRUE, id |-> t]

\* clean_playlist.py: the link is always a string (read by input()).
script_get_playlist_id_from_link(link) ==
    IF FindPair(link.text, "open.spotify.com/", "playlist/", 1) # 0
    THEN SomeId(BeforeTok(AfterTok(link.text, "playlist/"), "?"))
    ELSE IF FindPair(link.text, "spotify:", "playlist:", 1) # 0
    THEN SomeId(AfterPair(link.text, "spotify:", "playlist:"))
    ELSE NoId

\* app.py: 'if not link: return None' first.
get_playlist_id_from_link(link) ==
    IF ~link.present \/ link.text = <<>> THEN NoId
    ELSE IF FindPair(link.text, "open.spotify.com/", "playlist/", 1) # 0
    THEN SomeId(BeforeTok(AfterTok(link.text, "playlist/"), "?"))
    ELSE IF FindPair(link.text, "spotify:", "playlist:", 1) # 0
    THEN SomeId(AfterPair(link.text, "spotify:", "playlist:"))
    ELSE NoId

\* Only None counts as 'no id': the empty string passes.
FalsyNoneOnly(r) == ~r.found

\* Python truth value of the resolver's result: 'if not playlist_id'.
Falsy(r) == ~r.found \/ r.id = <<>>

\* ------------------------------------------------------------------------
\* The streaming service (the spotipy client's behaviour)
\* ------------------------------------------------------------------------
PlaylistIds == {"T", "F"}

\* The sentinel value of the filter-playlist list.
LikedSentinel == <<"liked_songs">>

\* The submitted filter-playlist ids: the user's playlist F and the sentinel.
PidChoices == {<<>>} \cup SeqsUpTo({<<"F">>, LikedSentinel}, MaxPids)

\* A playlist id the service knows.
PlaylistExists(pid) == Len(pid) = 1 /\ pid[1] \in PlaylistIds

\* Number of items a full page holds at this offset.
FullPage(seq, offset, limit) ==
    IF offset >= Len(seq) THEN 0 ELSE Min(limit, Len(seq) - offset)

\* The page lengths the service may answer with: the full page and, for a
\* service that pages short, a page of one item while more remain.
PageLens(seq, offset, limit, short) ==
    LET full == FullPage(seq, offset, limit)
    IN  {full} \cup {n \in {1} : short /\ n < full}

\* results['items'] of a page request answered with n items.
PageItems(seq, offset, n) == SubSeq(seq, offset + 1, offset + n)

\* playlist_remove_all_occurrences_of_items: every occurrence of every
\* listed identifier leaves the playlist.
RemoveAllOccurrences(seq, batch) ==
    LET ids == {batch[k] : k \in 1..Len(batch)}
        Keep(it) == ~(it.present /\ it.id \in ids)
    IN  SelectSeq(seq, Keep)

\* ------------------------------------------------------------------------
\* Pure parts of the engine
\* ------------------------------------------------------------------------
\* app.py: 'if item['track'] and item['track']['id']: add(id)' over a page.
CollectChecked(page) ==
    {page[k].id : k \in {j \in 1..Len(page) : page[j].present /\ page[j].id # NullId}}

\* clean_playlist.py: 'liked_songs_ids.add(item['track']['id'])', no check:
\* a null identifier is added like any other.  Items up to (not including)
\* the first one without a track are processed before the TypeError.
FirstNoTrack(page) ==
    LET bad == {j \in 1..Len(page) : ~page[j].present}
    IN  IF bad = {} THEN 0 ELSE CHOOSE j \in bad : \A i \in bad : j <= i

CollectUnchecked(page) ==
    LET stop == IF FirstNoTrack(page) = 0 THEN Len(page) ELSE FirstNoTrack(page) - 1
    IN  {page[k].id : k \in 1..stop}

\* The membership test forgotten: every identified track matches.
IsMatchNoMembership(it, fset) == it.present /\ it.id # NullId

\* 'if not track or not track['id']: continue' and the membership test.
IsMatch(it, fset) == it.present /\ it.id # NullId /\ it.id \in fset

\* A track is recorded once per page, however often it occurs.
MatchesOfDedup(page, fset) ==
    LET Hit(it) == IsMatch(it, fset)
        hits == SelectSeq(page, Hit)
        first == {k \in 1..Len(hits) : \A j \in 1..(k - 1) : hits[j].id # hits[k].id}
        Nth(n) == CHOOSE k \in first : Cardinality({j \in first : j <= k}) = n
    IN  [n \in 1..Cardinality(first) |-> [id |-> hits[Nth(n)].id, name |-> hits[Nth(n)].name]]

\* The loop over a page leaves at its first match.
MatchesOfFirstOnly(page, fset) ==
    LET Hit(it) == IsMatch(it, fset)
        hits == SelectSeq(page, Hit)
    IN  [k \in 1..Min(1, Len(hits)) |-> [id |-> hits[k].id, name |-> hits[k].name]]

\* The matches of one page, in page order, as {id, name}.
MatchesOf(page, fset) ==
    LET Hit(it) == IsMatch(it, fset)
        hits == SelectSeq(page, Hit)
    IN  [k \in 1..Len(hits) |-> [id |-> hits[k].id, name |-> hits[k].name]]

\* tracks_to_remove_ids = [t['id'] for t in tracks_to_remove]
IdsOf(tracks) == [k \in 1..Len(tracks) |-> tracks[k].id]

NamesOf(tracks) == [k \in 1..Len(tracks) |-> tracks[k].name]

\* Python's s.replace(c, r) for a character c: every c of s becomes the
\* characters of r.
RECURSIVE Replace(_, _, _)
Replace(s, c, r) ==
    IF s = <<>> THEN <<>>
    ELSE (IF Head(s) = c THEN r ELSE <<Head(s)>>) \o Replace(Tail(s), c, r)

Amp == <<"&", "a", "m", "p", ";">>
Lt == <<"&", "l", "t", ";">>
Gt == <<"&", "g", "t", ";">>

\* The three replacements with '&' last: it rewrites the '&' of the
\* entities the first two produced.
EscapeAmpLast(name) == Replace(Replace(Replace(name, "<", Lt), ">", Gt), "&", Amp)

\* track['name'].replace('&', '&amp;').replace('<', '&lt;').replace('>', '&gt;')
Escape(name) == Replace(Replace(Replace(name, "&", Amp), "<", Lt), ">", Gt)

\* The slice one short: ids[i:i+99].
BatchOneShort(ids, i) == SubSeq(ids, i + 1, Min(i + BatchSize - 1, Len(ids)))

\* batch = tracks_to_remove_ids[i:i+100]
Batch(ids, i) == SubSeq(ids, i + 1, Min(i + BatchSize, Len(ids)))

\* 'for filter_pid in filter_playlist_ids: if filter_pid == "liked_songs":
\* continue': index of the next playlist the loop body runs for, from k on
\* (0 when the loop is over).
RECURSIVE NextFilterIdx(_, _)
NextFilterIdx(pids, k) ==
    IF k > Len(pids) THEN 0
    ELSE IF pids[k] = LikedSentinel THEN NextFilterIdx(pids, k + 1)
    ELSE k

\* ------------------------------------------------------------------------
\* State
\* ------------------------------------------------------------------------
VARIABLES
    prog,             \* "script" or "web"
    playlists,        \* the service's playlists: id -> sequence of items
    liked,            \* the service's liked-songs library
    form,             \* what the user submits / types
    run,              \* number of the current run
    pc,               \* position of the run
    outcome,          \* how the run ended ("" while running)
    target_playlist_id,
    playlist_name,
    all_filter_song_ids,
    tracks_to_remove,
    offset,
    fidx,             \* position of the filter-playlist loop
    i,                \* position of the removal loop
    report,           \* the success report
    calls,            \* the upstream calls of this run, in order
    removals,         \* the batches of this run's removal calls, in order
    failed,           \* the upstream call of this run that failed ("" if none)
    shortPages,       \* the service may answer a page request with a short page
    origTarget,       \* the target playlist when the run began
    prevSuccess,      \* the previous run ended with the success report
    prevMatch         \* the previous run's matcher, if nothing changed since

vars == <<prog, playlists, liked, form, run, pc, outcome, target_playlist_id,
          playlist_name, all_filter_song_ids, tracks_to_remove, offset, fidx,
          i, report, calls, removals, failed, shortPages, origTarget,
          prevSuccess, prevMatch>>

world == <<prog, playlists, liked, form>>


NoReport == [count |-> 0, playlist |-> <<>>, names |-> <<>>]

\* No earlier matcher to compare with.
NoMatcher == [valid |-> FALSE, filter |-> {}, list |-> <<>>]

Call(op, pid, off) == [op |-> op, pid |-> pid, offset |-> off]

Forms ==
    [target_playlist : WebLinks,
     filter_playlists : PidChoices,
     include_liked_songs : BOOLEAN]

\* The script has one input, the typed link; it always uses liked songs.
ScriptForms ==
    [target_playlist : Links,
     filter_playlists : {<<>>},
     include_liked_songs : {TRUE}]

\* The state before the first run. A source no run reads is left empty: the
\* script reads no filter playlist, and without the include flag the web
\* application does not read the liked songs.
InitRun ==
    /\ prog \in {"script", "web"}
    /\ playlists \in [T : TargetChoices, F : SourceChoices]
    /\ liked \in SourceChoices
    /\ form \in (IF prog = "script" THEN ScriptForms ELSE Forms)
    /\ prog = "script" => playlists.F = <<>>
    /\ ~form.include_liked_songs => liked = <<>>
    /\ run = 1
    /\ pc = "start"
    /\ outcome = ""
    /\ target_playlist_id = NoId
    /\ playlist_name = <<>>
    /\ all_filter_song_ids = {}
    /\ tracks_to_remove = <<>>
    /\ offset = 0
    /\ fidx = 0
    /\ i = 0
    /\ report = NoReport
    /\ calls = <<>>
    /\ removals = <<>>
    /\ failed = ""
    /\ origTarget = playlists.T
    /\ prevSuccess = FALSE
    /\ prevMatch = NoMatcher

\* The service answers every page request with the full page, as the
\* Spotify Web API does.
Init ==
    /\ InitRun
    /\ shortPages = FALSE

\* A service that may answer with short pages.
InitShortPages ==
    /\ InitRun
    /\ shortPages = TRUE

\* The run ends with this outcome.
Finish(o) ==
    /\ pc' = "done"
    /\ outcome' = o

\* ------------------------------------------------------------------------
\* Web application: run_filter (app.py)
\* ------------------------------------------------------------------------
\* The loop without its 'if filter_pid == "liked_songs": continue': the body
\* runs for every entry of the list.
WebEnterFilterLoopNoSkip(k) ==
    LET n == IF k > Len(form.filter_playlists) THEN 0 ELSE k
    IN  /\ fidx' = n
        /\ offset' = 0
        /\ pc' = IF n = 0 THEN "match" ELSE "fname"

\* Entry of the filter-playlist loop at index k, or of the matcher when the
\* loop is over.
WebEnterFilterLoop(k) ==
    LET n == NextFilterIdx(form.filter_playlists, k)
    IN  /\ fidx' = n
        /\ offset' = 0
        /\ pc' = IF n = 0 THEN "match" ELSE "fname"

\* The except clause of run_filter: 'An error occurred', 500.
WebError(what) ==
    /\ Finish("Error500")
    /\ failed' = what
    /\ UNCHANGED <<target_playlist_id, playlist_name, all_filter_song_ids,
                   tracks_to_remove, offset, fidx, i, report, playlists,
                   shortPages>>

\* get_spotify_client, the form, the resolver: no upstream call.
WebBegin ==
    /\ prog = "web" /\ pc = "start"
    /\ \E hasToken \in BOOLEAN :
         IF ~hasToken
         THEN /\ Finish("Unauthenticated")
              /\ UNCHANGED target_playlist_id
         ELSE LET id == get_playlist_id_from_link(form.target_playlist)
              IN  /\ target_playlist_id' = id
                  /\ IF Falsy(id)
                     THEN Finish("InvalidTargetLink")
                     ELSE pc' = "meta" /\ outcome' = outcome
    /\ UNCHANGED <<world, run, playlist_name, all_filter_song_ids,
                   tracks_to_remove, offset, fidx, i, report, calls, removals,
                   failed, shortPages, origTarget, prevSuccess,
                   prevMatch>>

\* The lookup's failure caught and ignored: the run goes on without a name.
WebTargetNameSwallow ==
    /\ prog = "web" /\ pc = "meta"
    /\ calls' = Append(calls, Call("playlist", target_playlist_id.id, 0))
    /\ \E ok \in BOOLEAN :
         /\ playlist_name' = IF ok /\ PlaylistExists(target_playlist_id.id)
                             THEN target_playlist_id.id ELSE <<>>
         /\ failed' = IF ok /\ PlaylistExists(target_playlist_id.id)
                      THEN failed ELSE "target_name"
         /\ all_filter_song_ids' = {}
         /\ outcome' = outcome
         /\ IF form.include_liked_songs
            THEN pc' = "liked" /\ offset' = 0 /\ fidx' = fidx
            ELSE WebEnterFilterLoop(1)
         /\ UNCHANGED <<target_playlist_id, tracks_to_remove, i, report,
                        playlists, shortPages>>
    /\ UNCHANGED <<prog, liked, form, run, removals, origTarget, prevSuccess,
                   prevMatch>>

\* playlist_name = sp.playlist(target_playlist_id, fields='name')['name']
WebTargetName ==
    /\ prog = "web" /\ pc = "meta"
    /\ calls' = Append(calls, Call("playlist", target_playlist_id.id, 0))
    /\ \E ok \in BOOLEAN :
         IF ok /\ PlaylistExists(target_playlist_id.id)
         THEN /\ playlist_name' = target_playlist_id.id
              /\ all_filter_song_ids' = {}
              /\ outcome' = outcome
              /\ IF form.include_liked_songs
                 THEN pc' = "liked" /\ offset' = 0 /\ fidx' = fidx
                 ELSE WebEnterFilterLoop(1)
              /\ UNCHANGED <<target_playlist_id, tracks_to_remove, i, report,
                             playlists, failed, shortPages>>
         ELSE WebError("target_name")
    /\ UNCHANGED <<prog, liked, form, run, removals, origTarget, prevSuccess,
                   prevMatch>>

\* The liked-songs loop with the page request in a try of its own whose
\* except clause breaks: a failed request is taken for the empty page.
WebLikedPageSwallow ==
    /\ prog = "web" /\ pc = "liked"
    /\ calls' = Append(calls, Call("saved_tracks", <<>>, offset))
    /\ \/ /\ failed' = "liked_page"
          /\ outcome' = outcome
          /\ WebEnterFilterLoop(1)
          /\ UNCHANGED <<all_filter_song_ids, target_playlist_id, playlist_name,
                         tracks_to_remove, i, report, playlists, shortPages>>
       \/ \E n \in PageLens(liked, offset, LikedPageSize, shortPages) :
            LET page == PageItems(liked, offset, n)
            IN  /\ outcome' = outcome
                /\ IF page = <<>>
                   THEN /\ WebEnterFilterLoop(1)
                        /\ UNCHANGED all_filter_song_ids
                   ELSE /\ all_filter_song_ids' = all_filter_song_ids \cup CollectChecked(page)
                        /\ offset' = offset + LikedPageSize
                        /\ UNCHANGED <<pc, fidx>>
                /\ UNCHANGED <<target_playlist_id, playlist_name,
                               tracks_to_remove, i, report, playlists, failed,
                               shortPages>>
    /\ UNCHANGED <<prog, liked, form, run, removals, origTarget, prevSuccess,
                   prevMatch>>

\* One round of the liked-songs loop: a page request and its handling.
WebLikedPage ==
    /\ prog = "web" /\ pc = "liked"
    /\ calls' = Append(calls, Call("saved_tracks", <<>>, offset))
    /\ \/ WebError("liked_page")
       \/ \E n \in PageLens(liked, offset, LikedPageSize, shortPages) :
            LET page == PageItems(liked, offset, n)
            IN  /\ outcome' = outcome
                /\ IF page = <<>>
                   THEN /\ WebEnterFilterLoop(1)
                        /\ UNCHANGED all_filter_song_ids
                   ELSE /\ all_filter_song_ids' = all_filter_song_ids \cup CollectChecked(page)
                        /\ offset' = offset + LikedPageSize
                        /\ UNCHANGED <<pc, fidx>>
                /\ UNCHANGED <<target_playlist_id, playlist_name,
                               tracks_to_remove, i, report, playlists, failed,
                               shortPages>>
    /\ UNCHANGED <<prog, liked, form, run, removals, origTarget, prevSuccess,
                   prevMatch>>

\* filter_playlist_name = sp.playlist(filter_pid, fields='name')['name']
WebFilterName ==
    /\ prog = "web" /\ pc = "fname"
    /\ calls' = Append(calls, Call("playlist", form.filter_playlists[fidx], 0))
    /\ \E ok \in BOOLEAN :
         IF ok /\ PlaylistExists(form.filter_playlists[fidx])
         THEN /\ pc' = "fpage"
              /\ offset' = 0
              /\ UNCHANGED <<outcome, target_playlist_id, playlist_name,
                             all_filter_song_ids, tracks_to_remove, fidx, i,
                             report, playlists, failed, shortPages>>
         ELSE WebError("filter_name")
    /\ UNCHANGED <<prog, liked, form, run, removals, origTarget, prevSuccess,
                   prevMatch>>

\* One round of a filter playlist's loop.
WebFilterPage ==
    /\ prog = "web" /\ pc = "fpage"
    /\ calls' = Append(calls, Call("playlist_items", form.filter_playlists[fidx], offset))
    /\ \/ WebError("filter_page")
       \/ LET src == playlists[form.filter_playlists[fidx][1]]
          IN  \E n \in PageLens(src, offset, PlaylistPageSize, shortPages) :
                LET page == PageItems(src, offset, n)
                IN  /\ outcome' = outcome
                    /\ IF page = <<>>
                       THEN /\ WebEnterFilterLoop(fidx + 1)
                            /\ UNCHANGED all_filter_song_ids
                       ELSE /\ all_filter_song_ids' = all_filter_song_ids \cup CollectChecked(page)
                            /\ offset' = offset + PlaylistPageSize
                            /\ UNCHANGED <<pc, fidx>>
                    /\ UNCHANGED <<target_playlist_id, playlist_name,
                                   tracks_to_remove, i, report, playlists, failed,
                               shortPages>>
    /\ UNCHANGED <<prog, liked, form, run, removals, origTarget, prevSuccess,
                   prevMatch>>

\* The matcher's loop with the test 'results['items'] is None' in place of
\* 'not results['items']': the empty list is not None, so the empty page
\* does not end the loop.
WebMatchPageNoBreak ==
    /\ prog = "web" /\ pc = "match"
    /\ calls' = Append(calls, Call("playlist_items", target_playlist_id.id, offset))
    /\ \/ WebError("target_page")
       \/ LET src == playlists[target_playlist_id.id[1]]
          IN  \E n \in PageLens(src, offset, PlaylistPageSize, shortPages) :
                LET page == PageItems(src, offset, n)
                IN  /\ tracks_to_remove' =
                            tracks_to_remove \o MatchesOf(page, all_filter_song_ids)
                    /\ offset' = offset + PlaylistPageSize
                    /\ UNCHANGED <<pc, outcome>>
                    /\ UNCHANGED <<target_playlist_id, playlist_name,
                                   all_filter_song_ids, fidx, i, report, playlists,
                                   failed, shortPages>>
    /\ UNCHANGED <<prog, liked, form, run, removals, origTarget, prevSuccess,
                   prevMatch>>

\* One round of the matcher's loop; on the empty page, the 'no songs' exit
\* or the entry of the removal loop.
WebMatchPage ==
    /\ prog = "web" /\ pc = "match"
    /\ calls' = Append(calls, Call("playlist_items", target_playlist_id.id, offset))
    /\ \/ WebError("target_page")
       \/ LET src == playlists[target_playlist_id.id[1]]
          IN  \E n \in PageLens(src, offset, PlaylistPageSize, shortPages) :
                LET page == PageItems(src, offset, n)
                IN  /\ IF page = <<>>
                       THEN /\ IF tracks_to_remove = <<>>
                               THEN Finish("NoSongs")
                               ELSE pc' = "remove" /\ outcome' = outcome
                            /\ UNCHANGED <<tracks_to_remove, offset>>
                       ELSE /\ tracks_to_remove' =
                                   tracks_to_remove \o MatchesOf(page, all_filter_song_ids)
                            /\ offset' = offset + PlaylistPageSize
                            /\ UNCHANGED <<pc, outcome>>
                    /\ UNCHANGED <<target_playlist_id, playlist_name,
                                   all_filter_song_ids, fidx, i, report, playlists,
                                   failed, shortPages>>
    /\ UNCHANGED <<prog, liked, form, run, removals, origTarget, prevSuccess,
                   prevMatch>>

\* The success report: count, playlist name, the removed tracks' names
\* escaped for the <li> elements they are embedded in.
WebReport ==
    [count |-> Len(tracks_to_remove),
     playlist |-> playlist_name,
     names |-> [k \in 1..Len(tracks_to_remove) |-> Escape(tracks_to_remove[k].name)]]

\* The removal call's failure caught inside the loop: the loop goes on.
WebRemoveSwallow ==
    /\ prog = "web" /\ pc = "remove"
    /\ LET ids == IdsOf(tracks_to_remove)
           batch == Batch(ids, i)
       IN  /\ calls' = Append(calls, Call("remove", target_playlist_id.id, i))
           /\ removals' = Append(removals, batch)
           /\ \E ok \in BOOLEAN :
                /\ playlists' = IF ok
                                THEN [playlists EXCEPT
                                        ![target_playlist_id.id[1]] = RemoveAllOccurrences(@, batch)]
                                ELSE playlists
                /\ failed' = IF ok THEN failed ELSE "remove"
           /\ i' = i + BatchSize
           /\ IF i + BatchSize >= Len(ids)
              THEN Finish("Success") /\ report' = WebReport
              ELSE UNCHANGED <<pc, outcome, report>>
           /\ UNCHANGED <<target_playlist_id, playlist_name,
                          all_filter_song_ids, tracks_to_remove, offset,
                          fidx, shortPages, liked>>
    /\ UNCHANGED <<prog, form, run, origTarget, prevSuccess,
                   prevMatch>>

\* One round of the removal loop; after the last batch, the success report.
WebRemove ==
    /\ prog = "web" /\ pc = "remove"
    /\ LET ids == IdsOf(tracks_to_remove)
           batch == Batch(ids, i)
       IN  /\ calls' = Append(calls, Call("remove", target_playlist_id.id, i))
           /\ removals' = Append(removals, batch)
           /\ \/ /\ WebError("remove")
                 /\ UNCHANGED liked
              \/ /\ playlists' = [playlists EXCEPT
                        ![target_playlist_id.id[1]] = RemoveAllOccurrences(@, batch)]
                 /\ i' = i + BatchSize
                 /\ IF i + BatchSize >= Len(ids)
                    THEN Finish("Success") /\ report' = WebReport
                    ELSE UNCHANGED <<pc, outcome, report>>
                 /\ UNCHANGED <<target_playlist_id, playlist_name,
                                all_filter_song_ids, tracks_to_remove, offset,
                                fidx, failed, shortPages, liked>>
    /\ UNCHANGED <<prog, form, run, origTarget, prevSuccess,
                   prevMatch>>

\* ------------------------------------------------------------------------
\* Command-line script (clean_playlist.py)
\* ------------------------------------------------------------------------
\* An exception nobody catches: the script dies with a traceback.
ScriptCrash(what) ==
    /\ Finish("Crash")
    /\ failed' = what
    /\ UNCHANGED <<target_playlist_id, playlist_name, all_filter_song_ids,
                   tracks_to_remove, offset, fidx, i, report, playlists,
                   shortPages>>

\* Module level: user_info = sp.current_user(); on failure, exit().
ScriptAuth ==
    /\ prog = "script" /\ pc = "start"
    /\ calls' = Append(calls, Call("current_user", <<>>, 0))
    /\ \E ok \in BOOLEAN :
         IF ok
         THEN /\ pc' = "liked"
              /\ all_filter_song_ids' = {}
              /\ offset' = 0
              /\ UNCHANGED <<outcome, failed>>
         ELSE /\ Finish("AuthError")
              /\ failed' = "current_user"
              /\ UNCHANGED <<all_filter_song_ids, offset>>
    /\ UNCHANGED <<world, run, target_playlist_id, playlist_name,
                   tracks_to_remove, fidx, i, report, removals, shortPages,
                   origTarget, prevSuccess,
                   prevMatch>>

\* One round of the liked-songs loop.  After the empty page the script
\* reads the link and resolves it.
ScriptLikedPage ==
    /\ prog = "script" /\ pc = "liked"
    /\ calls' = Append(calls, Call("saved_tracks", <<>>, offset))
    /\ \/ ScriptCrash("liked_page")
       \/ \E n \in PageLens(liked, offset, LikedPageSize, shortPages) :
            LET page == PageItems(liked, offset, n)
                id == script_get_playlist_id_from_link(form.target_playlist)
            IN  /\ IF page = <<>>
                   THEN /\ target_playlist_id' = id
                        /\ IF Falsy(id)
                           THEN Finish("InvalidTargetLink")
                           ELSE pc' = "meta" /\ outcome' = outcome
                        /\ UNCHANGED <<all_filter_song_ids, offset>>
                   ELSE /\ all_filter_song_ids' = all_filter_song_ids \cup CollectUnchecked(page)
                        /\ IF FirstNoTrack(page) # 0
                           THEN Finish("Crash") /\ UNCHANGED offset
                           ELSE /\ offset' = offset + LikedPageSize
                                /\ UNCHANGED <<pc, outcome>>
                        /\ UNCHANGED target_playlist_id
                /\ UNCHANGED <<playlist_name, tracks_to_remove, fidx, i,
                               report, playlists, failed, shortPages>>
    /\ UNCHANGED <<prog, liked, form, run, removals, origTarget, prevSuccess,
                   prevMatch>>

\* playlist_name = sp.playlist(playlist_id, fields='name')['name'] in its
\* try block.
ScriptTargetName ==
    /\ prog = "script" /\ pc = "meta"
    /\ calls' = Append(calls, Call("playlist", target_playlist_id.id, 0))
    /\ \E ok \in BOOLEAN :
         IF ok /\ PlaylistExists(target_playlist_id.id)
         THEN /\ playlist_name' = target_playlist_id.id
              /\ tracks_to_remove' = <<>>
              /\ offset' = 0
              /\ pc' = "match"
              /\ UNCHANGED <<outcome, failed>>
         ELSE /\ Finish("TargetPlaylistNotFound")
              /\ failed' = "target_name"
              /\ UNCHANGED <<playlist_name, tracks_to_remove, offset>>
    /\ UNCHANGED <<world, run, target_playlist_id, all_filter_song_ids, fidx,
                   i, report, removals, shortPages, origTarget, prevSuccess,
                   prevMatch>>

\* The matcher's loop without the test 'if not tracks_to_remove_ids': the
\* run enters the removal stage whatever the matcher found.
ScriptMatchPageNoEmptyCheck ==
    /\ prog = "script" /\ pc = "match"
    /\ calls' = Append(calls, Call("playlist_items", target_playlist_id.id, offset))
    /\ \/ ScriptCrash("target_page")
       \/ LET src == playlists[target_playlist_id.id[1]]
          IN  \E n \in PageLens(src, offset, PlaylistPageSize, shortPages) :
                LET page == PageItems(src, offset, n)
                IN  /\ IF page = <<>>
                       THEN /\ pc' = "remove" /\ outcome' = outcome
                            /\ UNCHANGED <<tracks_to_remove, offset>>
                       ELSE /\ tracks_to_remove' =
                                   tracks_to_remove \o MatchesOf(page, all_filter_song_ids)
                            /\ offset' = offset + PlaylistPageSize
                            /\ UNCHANGED <<pc, outcome>>
                    /\ UNCHANGED <<target_playlist_id, playlist_name,
                                   all_filter_song_ids, fidx, i, report, playlists,
                                   failed, shortPages>>
    /\ UNCHANGED <<prog, liked, form, run, removals, origTarget, prevSuccess,
                   prevMatch>>

\* One round of the matcher's loop; on the empty page, the 'no liked songs'
\* exit or the entry of the removal loop.
ScriptMatchPage ==
    /\ prog = "script" /\ pc = "match"
    /\ calls' = Append(calls, Call("playlist_items", target_playlist_id.id, offset))
    /\ \/ ScriptCrash("target_page")
       \/ LET src == playlists[target_playlist_id.id[1]]
          IN  \E n \in PageLens(src, offset, PlaylistPageSize, shortPages) :
                LET page == PageItems(src, offset, n)
                IN  /\ IF page = <<>>
                       THEN /\ IF tracks_to_remove = <<>>
                               THEN Finish("NoSongs")
                               ELSE pc' = "remove" /\ outcome' = outcome
                            /\ UNCHANGED <<tracks_to_remove, offset>>
                       ELSE /\ tracks_to_remove' =
                                   tracks_to_remove \o MatchesOf(page, all_filter_song_ids)
                            /\ offset' = offset + PlaylistPageSize
                            /\ UNCHANGED <<pc, outcome>>
                    /\ UNCHANGED <<target_playlist_id, playlist_name,
                                   all_filter_song_ids, fidx, i, report, playlists,
                                   failed, shortPages>>
    /\ UNCHANGED <<prog, liked, form, run, removals, origTarget, prevSuccess,
                   prevMatch>>

\* What a successful run has printed: the name of each match at the moment
\* its identifier is appended ('-> Found liked song: ...', unescaped, the
\* output being a terminal's), then the final message with the count and
\* the playlist name.
ScriptReport ==
    [count |-> Len(tracks_to_remove),
     playlist |-> playlist_name,
     names |-> NamesOf(tracks_to_remove)]

\* One round of the removal loop; after the last batch, the success message.
ScriptRemove ==
    /\ prog = "script" /\ pc = "remove"
    /\ LET ids == IdsOf(tracks_to_remove)
           batch == Batch(ids, i)
       IN  /\ calls' = Append(calls, Call("remove", target_playlist_id.id, i))
           /\ removals' = Append(removals, batch)
           /\ \/ /\ ScriptCrash("remove")
                 /\ UNCHANGED liked
              \/ /\ playlists' = [playlists EXCEPT
                        ![target_playlist_id.id[1]] = RemoveAllOccurrences(@, batch)]
                 /\ i' = i + BatchSize
                 /\ IF i + BatchSize >= Len(ids)
                    THEN Finish("Success") /\ report' = ScriptReport
                    ELSE UNCHANGED <<pc, outcome, report>>
                 /\ UNCHANGED <<target_playlist_id, playlist_name,
                                all_filter_song_ids, tracks_to_remove, offset,
                                fidx, failed, shortPages, liked>>
    /\ UNCHANGED <<prog, form, run, origTarget, prevSuccess,
                   prevMatch>>

\* ------------------------------------------------------------------------
\* The user runs the program again, with the same input
\* ------------------------------------------------------------------------
\* The matcher's loop is over and did not fail.
MatcherFinished == pc = "remove" \/ outcome \in {"NoSongs", "Success"} \/ failed = "remove"

\* The next request with tracks_to_remove a list of the module, which lives
\* on from request to request.
RerunKeepsMatches ==
    /\ pc = "done" /\ run < MaxRuns
    /\ run' = run + 1
    /\ prevSuccess' = (outcome = "Success")
    /\ prevMatch' = IF MatcherFinished /\ playlists.T = origTarget
                    THEN [valid |-> TRUE, filter |-> all_filter_song_ids,
                          list |-> tracks_to_remove]
                    ELSE NoMatcher
    /\ origTarget' = playlists.T
    /\ pc' = "start"
    /\ outcome' = ""
    /\ target_playlist_id' = NoId
    /\ playlist_name' = <<>>
    /\ all_filter_song_ids' = {}
    /\ UNCHANGED tracks_to_remove
    /\ offset' = 0
    /\ fidx' = 0
    /\ i' = 0
    /\ report' = NoReport
    /\ calls' = <<>>
    /\ removals' = <<>>
    /\ failed' = ""
    /\ UNCHANGED shortPages
    /\ UNCHANGED world

Rerun ==
    /\ pc = "done" /\ run < MaxRuns
    /\ run' = run + 1
    /\ prevSuccess' = (outcome = "Success")
    /\ prevMatch' = IF MatcherFinished /\ playlists.T = origTarget
                    THEN [valid |-> TRUE, filter |-> all_filter_song_ids,
                          list |-> tracks_to_remove]
                    ELSE NoMatcher
    /\ origTarget' = playlists.T
    /\ pc' = "start"
    /\ outcome' = ""
    /\ target_playlist_id' = NoId
    /\ playlist_name' = <<>>
    /\ all_filter_song_ids' = {}
    /\ tracks_to_remove' = <<>>
    /\ offset' = 0
    /\ fidx' = 0
    /\ i' = 0
    /\ report' = NoReport
    /\ calls' = <<>>
    /\ removals' = <<>>
    /\ failed' = ""
    /\ UNCHANGED shortPages
    /\ UNCHANGED world

Next ==
    \/ WebBegin
    \/ WebTargetName
    \/ WebLikedPage
    \/ WebFilterName
    \/ WebFilterPage
    \/ WebMatchPage
    \/ WebRemove
    \/ ScriptAuth
    \/ ScriptLikedPage
    \/ ScriptTargetName
    \/ ScriptMatchPage
    \/ ScriptRemove
    \/ Rerun

Spec == Init /\ [][Next]_vars

SpecShortPages == InitShortPages /\ [][Next]_vars

TypeOK ==
    /\ prog \in {"script", "web"}
    /\ run \in 1..MaxRuns
    /\ pc \in {"start", "meta", "liked", "fname", "fpage", "match", "remove", "done"}
    /\ outcome \in {"", "Unauthenticated", "InvalidTargetLink", "Error500",
                    "AuthError", "Crash", "TargetPlaylistNotFound", "NoSongs", "Success"}
    /\ (pc = "done") = (outcome # "")
    /\ all_filter_song_ids \subseteq TrackIds \cup {NullId}

\* ------------------------------------------------------------------------
\* Properties
\* ------------------------------------------------------------------------
Done == pc = "done"

\* The target playlist of the run, as the service holds it now.
TargetNow == playlists[target_playlist_id.id[1]]

\* it is a track with a present identifier that is in the set fs.
PresentIn(it, fs) == it.present /\ it.id # NullId /\ it.id \in fs

\* seq without its tracks whose identifier is in fs, order kept.
Without(seq, fs) ==
    LET Stay(it) == ~PresentIn(it, fs)
    IN  SelectSeq(seq, Stay)

\* The tracks of seq whose identifier is in fs, order and duplicates kept.
Within(seq, fs) ==
    LET Hit(it) == PresentIn(it, fs)
    IN  SelectSeq(seq, Hit)

RECURSIVE Concat(_)
Concat(ss) == IF ss = <<>> THEN <<>> ELSE Head(ss) \o Concat(Tail(ss))

\* C1: when a run ends with the success report, the target playlist is its original track sequence without the
\* tracks whose identifier is in the FilterSet: all their occurrences are
\* gone, every other entry is still there in its original relative order.
C1_SuccessRemovesExactlyFilterSet ==
    outcome = "Success" =>
        TargetNow = Without(origTarget, all_filter_song_ids)

\* A successful run that removed several occurrences of a track and left
\* another entry in place.
C1_Witness ==
    /\ outcome = "Success"
    /\ Len(origTarget) > PlaylistPageSize
    /\ TargetNow # <<>>
    /\ Len(TargetNow) < Len(origTarget)

\* C2: the removal calls carry at most 100 identifiers each, what they
\* carry concatenates to a prefix of the MatchList's identifier sequence,
\* and when all have been issued they are ceil(N / 100) and concatenate to
\* the whole identifier sequence.
C2_BatchPartition ==
    LET ids == IdsOf(tracks_to_remove)
        N == Len(ids)
        sent == Concat(removals)
    IN  /\ \A k \in 1..Len(removals) :
              Len(removals[k]) >= 1 /\ Len(removals[k]) <= 100
        /\ Len(sent) <= N /\ sent = SubSeq(ids, 1, Len(sent))
        /\ outcome = "Success" =>
              /\ N >= 1
              /\ Len(removals) = (N + 99) \div 100
              /\ sent = ids

\* 250 matched identifiers: three calls of sizes 100, 100, 50.
C2_Witness ==
    /\ outcome = "Success"
    /\ Len(tracks_to_remove) = 250
    /\ Len(removals) = 3
    /\ <<Len(removals[1]), Len(removals[2]), Len(removals[3])>> = <<100, 100, 50>>

\* The link inputs that hold no playlist id: a missing field, the empty
\* string, a random string, an unrecognized scheme, a URL that stops after
\* 'playlist/'.
UnresolvableLinks ==
    { NoLink,
      Text(<<>>),
      Text(<<"junk">>),
      Text(<<"spotify:", "album:", "T">>),
      Text(<<"https://", "open.spotify.com/", "playlist/">>) }

ErrorOutcomes ==
    {"Unauthenticated", "InvalidTargetLink", "Error500", "AuthError", "Crash",
     "TargetPlaylistNotFound"}

\* The operations of the upstream calls made so far in this run.
OpsCalled == {calls[k].op : k \in 1..Len(calls)}

\* C3 as stated: a run that ends with the InvalidTargetLink error has made
\* no upstream call at all.
C3_Original == outcome = "InvalidTargetLink" => calls = <<>>

\* C3 as amended: for a link that holds no playlist id, no metadata,
\* playlist-paging or removal call is ever made; the web app makes no
\* upstream call at all and ends with InvalidTargetLink (Unauthenticated
\* without a session); the script reads the link after the identity call
\* and the liked-songs paging, so only those calls precede its
\* InvalidTargetLink error, unless their failure ends the run first.  The
\* InvalidTargetLink error is raised for no other link.
C3_InvalidLinkMakesNoPlaylistCall ==
    /\ form.target_playlist \in UnresolvableLinks =>
          /\ OpsCalled \subseteq {"current_user", "saved_tracks"}
          /\ prog = "web" => calls = <<>>
          /\ (Done /\ prog = "web") => outcome \in {"InvalidTargetLink", "Unauthenticated"}
          /\ (Done /\ prog = "script") => outcome \in {"InvalidTargetLink", "AuthError", "Crash"}
          /\ (Done /\ prog = "script" /\ failed = "" /\ outcome # "Crash") =>
                outcome = "InvalidTargetLink"
    /\ outcome = "InvalidTargetLink" => form.target_playlist \in UnresolvableLinks

\* The script reports the invalid link after it has paged the liked songs.
C3_Witness ==
    /\ prog = "script"
    /\ outcome = "InvalidTargetLink"
    /\ Len(calls) >= 3
    /\ form.target_playlist = Text(<<"junk">>)

\* C4 as stated: when the target's metadata lookup fails the run ends with
\* an error and no page of a filter source has been requested.
C4_Original ==
    failed = "target_name" =>
        /\ outcome \in ErrorOutcomes
        /\ OpsCalled \cap {"saved_tracks", "playlist_items"} = {}

\* C4 as amended: when the target's metadata lookup fails the run ends at
\* once with an error (the script's 'could not find playlist', the web
\* app's generic error response); no playlist page and no removal is ever
\* requested; the web app has paged no filter source at all, the script
\* has paged the liked songs, and nothing else, before the lookup.
C4_MetadataFailureEndsRun ==
    failed = "target_name" =>
        /\ Done
        /\ outcome = (IF prog = "web" THEN "Error500" ELSE "TargetPlaylistNotFound")
        /\ calls[Len(calls)] = Call("playlist", target_playlist_id.id, 0)
        /\ OpsCalled \cap {"playlist_items", "remove"} = {}
        /\ prog = "web" => Len(calls) = 1
        /\ prog = "script" =>
              /\ Len(calls) >= 3
              /\ calls[1].op = "current_user"
              /\ \A k \in 2..(Len(calls) - 1) : calls[k].op = "saved_tracks"
        /\ removals = <<>>
        /\ playlists.T = origTarget

\* The script fails to find the target after several liked-songs pages.
C4_Witness ==
    /\ prog = "script"
    /\ failed = "target_name"
    /\ outcome = "TargetPlaylistNotFound"
    /\ Len(calls) >= 5

\* The present identifiers of a source.
PresentIdsOf(seq) ==
    {seq[k].id : k \in {j \in 1..Len(seq) : seq[j].present /\ seq[j].id # NullId}}

\* The identifiers of the sources the run selected.
SelectedIds ==
    (IF form.include_liked_songs THEN PresentIdsOf(liked) ELSE {})
    \cup (IF \E k \in 1..Len(form.filter_playlists) : form.filter_playlists[k] = <<"F">>
          THEN PresentIdsOf(playlists.F) ELSE {})

\* C5: once the Collector has finished, the FilterSet is exactly the set of
\* present identifiers of the selected sources, also for a service that
\* answers with short pages.
C5_FilterSetIsUnion ==
    pc \in {"match", "remove"} => all_filter_song_ids = SelectedIds

\* {id, name} of each item.
AsTrackRefs(seq) == [k \in 1..Len(seq) |-> [id |-> seq[k].id, name |-> seq[k].name]]

\* C6: the MatchList is the subsequence, in target order and with every
\* occurrence, of the target's tracks whose present identifier is in the
\* FilterSet (of the part paged so far while the Matcher runs); entries
\* without track or identifier never appear in it.
C6_MatchListIsSubsequence ==
    /\ pc = "match" =>
          tracks_to_remove =
              AsTrackRefs(Within(SubSeq(origTarget, 1, Min(offset, Len(origTarget))),
                                 all_filter_song_ids))
    /\ (pc = "remove" \/ outcome \in {"NoSongs", "Success"}) =>
          tracks_to_remove = AsTrackRefs(Within(origTarget, all_filter_song_ids))
    /\ \A k \in 1..Len(tracks_to_remove) : tracks_to_remove[k].id # NullId

\* The Matcher has finished on a long target that holds a track several
\* times, an entry without track and a local file.
C6_Witness ==
    /\ pc = "remove"
    /\ Len(tracks_to_remove) >= 2
    /\ tracks_to_remove[1].id = tracks_to_remove[2].id
    /\ \E k \in 1..Len(origTarget) : ~origTarget[k].present
    /\ \E k \in 1..Len(origTarget) : origTarget[k] = LocalFile

\* C7: after a removal call has failed the run is over with an error, never
\* the success report, and the failing call is the last call of the run.
C7_RemovalFailureIsError ==
    failed = "remove" =>
        /\ Done
        /\ outcome \in {"Error500", "Crash"}
        /\ report = NoReport
        /\ calls[Len(calls)].op = "remove"
        /\ Len(removals) = Cardinality({k \in 1..Len(calls) : calls[k].op = "remove"})

\* A later batch fails after an earlier one succeeded.
C7_Witness ==
    /\ failed = "remove"
    /\ Len(removals) >= 2
    /\ TargetNow # origTarget

\* C8: a run that follows a successful run on the same input issues no
\* removal call and, unless an upstream call fails or the session is gone,
\* ends with 'no songs to remove'.
C8_SecondRunRemovesNothing ==
    (run >= 2 /\ prevSuccess) =>
        /\ removals = <<>>
        /\ tracks_to_remove = <<>>
        /\ outcome # "Success"
        /\ (Done /\ failed = "" /\ outcome # "Unauthenticated") => outcome = "NoSongs"

\* The second run, after a first one that removed tracks on several pages.
C8_Witness ==
    /\ run = 2 /\ prevSuccess
    /\ outcome = "NoSongs"
    /\ Len(calls) >= 4

\* C9: collection never puts a null identifier into the FilterSet and
\* never dies on an item without track or identifier: a crash is always
\* the failure of an upstream call.
C9_NullItemsSkipped ==
    /\ NullId \notin all_filter_song_ids
    /\ outcome = "Crash" => failed # ""

\* C10: the failure of a filter playlist's name lookup does not end the run
\* with an error.
C10_NameLookupBestEffort ==
    failed = "filter_name" => outcome \notin ErrorOutcomes

\* ------------------------------------------------------------------------
\* The page requests of a run, read from its call log
\* ------------------------------------------------------------------------
IsPageCall(c) == c.op \in {"saved_tracks", "playlist_items"}

\* The limit a page request was made with.
LimitOf(c) == IF c.op = "saved_tracks" THEN LikedPageSize ELSE PlaylistPageSize

\* The items of the source a page request reads. No run pages the target
\* after its first removal call, so the target's items at a page request
\* are those of the run's beginning.
SourceOf(c) ==
    IF c.op = "saved_tracks" THEN liked
    ELSE IF c.pid = <<"T">> THEN origTarget
    ELSE playlists[c.pid[1]]

\* The service answers a request at or beyond the end with the empty page.
AnsweredEmpty(c) == c.offset >= Len(SourceOf(c))

\* The positions of the target's page requests in the call log.
TargetPageCalls ==
    {k \in 1..Len(calls) : calls[k].op = "playlist_items" /\ calls[k].pid = <<"T">>}

\* C11: every paging loop stops at its first empty page: a page request
\* beyond offset 0 continues the request before it, whose page was not
\* empty; the request after an empty page is not a request for a further
\* page of that source; the loops over the liked songs and over the target
\* see one empty page in a run; a loop makes at most one request more than
\* its source has items, and one request when the target is empty.
C11_LoopStopsAtFirstEmptyPage ==
    /\ \A k \in 1..Len(calls) :
         (IsPageCall(calls[k]) /\ calls[k].offset > 0) =>
            /\ k > 1
            /\ calls[k-1].op = calls[k].op
            /\ calls[k-1].pid = calls[k].pid
            /\ calls[k-1].offset = calls[k].offset - LimitOf(calls[k])
            /\ ~AnsweredEmpty(calls[k-1])
    /\ \A k \in 1..Len(calls) :
         (IsPageCall(calls[k]) /\ AnsweredEmpty(calls[k]) /\ calls[k].pid # <<"F">>) =>
            \A j \in (k+1)..Len(calls) :
                ~(calls[j].op = calls[k].op /\ calls[j].pid = calls[k].pid)
    /\ Cardinality(TargetPageCalls) <= Len(origTarget) + 1
    /\ (MatcherFinished /\ origTarget = <<>>) => Cardinality(TargetPageCalls) = 1

\* A run over an empty target that paged another source to its end first.
C11_Witness ==
    /\ outcome = "NoSongs"
    /\ origTarget = <<>>
    /\ Cardinality(TargetPageCalls) = 1
    /\ \E k \in 1..Len(calls) :
         /\ IsPageCall(calls[k]) /\ calls[k].offset > 0 /\ AnsweredEmpty(calls[k])

\* C12: a matcher that ends with an empty MatchList ends the run with the
\* 'no songs to remove' outcome, which is not an error, with no removal
\* call issued and the target as it was; and that outcome is reached in no
\* other way.
C12_EmptyMatchListRemovesNothing ==
    /\ (MatcherFinished /\ tracks_to_remove = <<>>) =>
          /\ Done
          /\ outcome = "NoSongs"
          /\ outcome \notin ErrorOutcomes
          /\ removals = <<>>
          /\ "remove" \notin OpsCalled
          /\ playlists.T = origTarget
    /\ outcome = "NoSongs" =>
          /\ tracks_to_remove = <<>>
          /\ failed = ""
          /\ calls[Len(calls)].op = "playlist_items"
          /\ AnsweredEmpty(calls[Len(calls)])

\* A run with a FilterSet that is not empty, over a target of several
\* pages none of whose tracks is in it.
C12_Witness ==
    /\ outcome = "NoSongs"
    /\ all_filter_song_ids # {}
    /\ Len(origTarget) > PlaylistPageSize
    /\ Cardinality(TargetPageCalls) >= 3

\* ------------------------------------------------------------------------
\* The report
\* ------------------------------------------------------------------------
\* The entity that stands for one character in HTML text.
HtmlEntity(ch) ==
    CASE ch = "&" -> <<"&", "a", "m", "p", ";">>
      [] ch = "<" -> <<"&", "l", "t", ";">>
      [] ch = ">" -> <<"&", "g", "t", ";">>
      [] OTHER -> <<ch>>

\* The HTML text a browser displays as the string name.
HtmlText(name) == Concat([k \in 1..Len(name) |-> HtmlEntity(name[k])])

\* A name as the run's output carries it: in the web application inside
\* markup, in the script on the terminal.
Shown(name) == IF prog = "web" THEN HtmlText(name) ELSE name

\* C13: on success the reported count is the number of the target's
\* entries whose identifier is in the FilterSet, every occurrence counted;
\* the reported names are those entries' names, one per entry in target
\* order, each as the output's medium displays it; the report names the
\* target; and a MatchList of one batch was removed by one removal call
\* carrying its identifiers.
C13_ReportMatchesMatchList ==
    outcome = "Success" =>
        LET ml == Within(origTarget, all_filter_song_ids)
        IN  /\ report.count = Len(ml)
            /\ report.playlist = playlist_name
            /\ Len(report.names) = Len(ml)
            /\ \A k \in 1..Len(ml) : report.names[k] = Shown(ml[k].name)
            /\ Len(ml) <= BatchSize => removals = <<IdsOf(ml)>>

\* The web application over a target of three entries of which the middle
\* one alone is in the FilterSet: one song reported, by its name, after one
\* removal call with that one identifier.
C13_Witness ==
    /\ outcome = "Success"
    /\ prog = "web"
    /\ Len(origTarget) = 3
    /\ origTarget[2].id = NumIds
    /\ all_filter_song_ids = {NumIds}
    /\ report.count = 1
    /\ report.names = <<HtmlText(TrackName(NumIds))>>
    /\ report.names # <<TrackName(NumIds)>>
    /\ removals = << <<NumIds>> >>

\* C14: the matcher mutates no playlist: while it runs the run has issued
\* no removal call and the target is as it was when the run began, and
\* every page request for the target precedes every removal call; and a
\* matcher that has run to its end over the target and with the FilterSet
\* the previous run's matcher ran to its end with has the MatchList that
\* one had.
C14_MatcherReadOnlyAndRepeatable ==
    /\ pc = "match" =>
          /\ "remove" \notin OpsCalled
          /\ removals = <<>>
          /\ playlists.T = origTarget
    /\ \A k \in TargetPageCalls : \A j \in 1..k : calls[j].op # "remove"
    /\ (run >= 2 /\ prevMatch.valid /\ MatcherFinished
          /\ all_filter_song_ids = prevMatch.filter) =>
             tracks_to_remove = prevMatch.list

\* The second of two runs whose matchers found the same several tracks,
\* the first run's removal call having failed.
C14_Witness ==
    /\ run = 2
    /\ prevMatch.valid
    /\ MatcherFinished
    /\ all_filter_song_ids = prevMatch.filter
    /\ Len(tracks_to_remove) >= 2
    /\ Cardinality(TargetPageCalls) >= 2

\* The paging calls a run can fail in.
PagingFailures == {"liked_page", "filter_page", "target_page"}

\* C15: a run one of whose page requests failed has ended with an error
\* outcome and no report, the failed request is its last upstream call, it
\* issued no removal call and its target is as it was; and a removal call
\* is preceded by another removal call or by the request that brought the
\* matcher its empty page.
C15_PagingFailureRemovesNothing ==
    /\ failed \in PagingFailures =>
          /\ Done
          /\ outcome \in {"Error500", "Crash"}
          /\ report = NoReport
          /\ IsPageCall(calls[Len(calls)])
          /\ (failed = "liked_page") = (calls[Len(calls)].op = "saved_tracks")
          /\ (failed = "target_page") = (calls[Len(calls)].pid = <<"T">>)
          /\ "remove" \notin OpsCalled
          /\ removals = <<>>
          /\ playlists.T = origTarget
    /\ \A k \in 1..Len(calls) :
         calls[k].op = "remove" =>
            /\ k > 1
            /\ \/ calls[k-1].op = "remove"
               \/ /\ k - 1 \in TargetPageCalls
                  /\ AnsweredEmpty(calls[k-1])

\* The matcher's request for a later page fails after matches were found
\* on an earlier page.
C15_Witness ==
    /\ failed = "target_page"
    /\ Done
    /\ offset > 0
    /\ tracks_to_remove # <<>>
    /\ playlists.T = origTarget

\* The collection stage of the run is over and did not fail.
CollectorFinished ==
    pc \in {"match", "remove"} \/ MatcherFinished \/ failed = "target_page"

\* The playlist ids of the name lookups that follow the target's.
FilterLookups ==
    LET IsLookup(c) == c.op = "playlist"
        later == SelectSeq(SubSeq(calls, 2, Len(calls)), IsLookup)
    IN  [k \in 1..Len(later) |-> later[k].pid]

\* The submitted filter playlists without the sentinel, in order.
RealFilterPlaylists ==
    LET IsReal(p) == p # LikedSentinel
    IN  SelectSeq(form.filter_playlists, IsReal)

\* C16: in the web application no upstream call carries the sentinel
\* "liked_songs" as playlist id; the name lookups of the filter playlists
\* are a prefix of the submitted list without the sentinel, and the whole
\* of it once collection is over; and the call that follows the target's
\* name lookup is a liked-songs page request exactly when the include flag
\* is set, so that liked songs are paged if and only if it is set, whether
\* or not the sentinel is in the list.
C16_SentinelSkipped ==
    prog = "web" =>
        /\ \A k \in 1..Len(calls) : calls[k].pid # LikedSentinel
        /\ Len(FilterLookups) <= Len(RealFilterPlaylists)
        /\ FilterLookups = SubSeq(RealFilterPlaylists, 1, Len(FilterLookups))
        /\ CollectorFinished => FilterLookups = RealFilterPlaylists
        /\ "saved_tracks" \in OpsCalled => form.include_liked_songs
        /\ Len(calls) >= 2 =>
              (calls[2].op = "saved_tracks") = form.include_liked_songs

\* A finished collection for a list with the sentinel before a playlist,
\* without the include flag: the playlist was paged, the liked songs not.
C16_Witness ==
    /\ prog = "web"
    /\ CollectorFinished
    /\ ~form.include_liked_songs
    /\ Len(form.filter_playlists) >= 2
    /\ form.filter_playlists[1] = LikedSentinel
    /\ FilterLookups = << <<"F">> >>
    /\ all_filter_song_ids # {}
    /\ "saved_tracks" \notin OpsCalled

====
